---- MODULE Spec2Model ----
(***************************************************************************)
(* Credential lifecycle of ClipsUploader: core/auth.py, class GoogleAuth.   *)
(*                                                                         *)
(* State: the token directory on disk, the in-memory token_cache, the hash *)
(* salt of the interpreter run and the clock.                              *)
(* Every public method is one action that models the whole call; the       *)
(* outcomes of the collaborators the code does not own (consent flow,      *)
(* refresh exchange, remote revocation, file system) are drawn with \E.    *)
(*                                                                         *)
(* A credential object is a record [expiry, refresh_token, granted]; its    *)
(* access token is always present (both the consent flow and the refresh   *)
(* exchange set it), so Credentials.valid is "not expired"; granted is the *)
(* scope set and identity it was issued for.  Credentials.refresh          *)
(* mutates the object in place, and the object _load_credentials returns   *)
(* is the one token_cache holds: a refresh changes the cache entry even    *)
(* when the save that follows fails.                                       *)
(*                                                                         *)
(* self.credentials is assigned at line 160, before get_credentials reads  *)
(* it, and no other method reads it: it is the local of get_credentials,   *)
(* and the value the call returns is logged in last.ret.                   *)
(*                                                                         *)
(* Spec is the sequential GoogleAuth; SpecConcurrent runs get_credentials  *)
(* for two callers line by line, with self.credentials shared; SpecUpload  *)
(* is gui/upload_widget.py: UploadWidget, its UploadWorker threads and the *)
(* rows GoogleSheetsAPI.add_video_record appends; SpecWindow is            *)
(* gui/main_window.py: MainWindow calling GoogleAuth for the identity      *)
(* 'default'; SpecMapping is the privacy and category mapping of an upload *)
(* request; SpecSettings is config/settings.py: AppSettings objects and    *)
(* DEFAULT_SETTINGS.                                                       *)
(***************************************************************************)
EXTENDS Integers, Sequences, FiniteSets, TLC

\* ------------------------------------------------------------------ bounds
\* The clock runs over 0..MaxTime.
MaxTime == 1
\* Lifetime, in clock ticks, of an access token issued by the endpoint.
TokenLifetime == 1
\* Hash salts of interpreter runs are drawn from 0..MaxSeed.
MaxSeed == 1
\* The token directory holds at most MaxFiles files.
MaxFiles == 2

\* ------------------------------------------------------------- identities
\* Identity labels are strings, modelled as sequences of characters so that
\* the glob of revoke_token can be computed on file names.
UserDefault == <<"d">>
UserOther   == <<"d", "_", "x">>
Users == {UserDefault, UserOther}

\* ------------------------------------------------------------------ scopes
YOUTUBE_SCOPES == <<"youtube.upload", "youtube">>
SHEETS_SCOPES  == <<"spreadsheets">>

\* Lexicographic rank of the scope URLs (they share the prefix
\* https://www.googleapis.com/auth/).
ScopeRank(s) ==
    CASE s = "spreadsheets"   -> 1
      [] s = "youtube"        -> 2
      [] s = "youtube.upload" -> 3

SeqToSet(q) == {q[i] : i \in DOMAIN q}

\* All orders of a set of scopes: list(set(...)) has no defined order.
Orderings(S) ==
    {q \in [1..Cardinality(S) -> S] : SeqToSet(q) = S}

\* combined_scopes = list(set(YOUTUBE_SCOPES + SHEETS_SCOPES))
CombinedScopeLists == Orderings(SeqToSet(YOUTUBE_SCOPES \o SHEETS_SCOPES))

\* The orders of combined_scopes the calls are explored with: the order of the
\* concatenation and its reverse.
Reverse(q) == [i \in 1..Len(q) |-> q[Len(q) + 1 - i]]
CallCombinedLists ==
    {q \in CombinedScopeLists :
        q = YOUTUBE_SCOPES \o SHEETS_SCOPES
        \/ q = Reverse(YOUTUBE_SCOPES \o SHEETS_SCOPES)}

\* The scope lists get_credentials is explored with: those of
\* get_sheets_service and get_combined_service.
ScopeLists == {SHEETS_SCOPES} \cup CallCombinedLists

\* sorted(scopes)
RECURSIVE Sorted(_)
Sorted(q) ==
    IF q = <<>> THEN <<>>
    ELSE LET i == CHOOSE i \in DOMAIN q :
                    \A j \in DOMAIN q : ScopeRank(q[i]) <= ScopeRank(q[j])
             rest == [k \in 1..(Len(q) - 1) |-> IF k < i THEN q[k] ELSE q[k + 1]]
         IN  <<q[i]>> \o Sorted(rest)


\* ''.join(sorted(scopes)): the concatenation of the sorted scope URLs.  Every
\* URL starts with "https://", so the concatenation determines the sorted
\* list; it is kept as that list.
Joined(scopes) == Sorted(scopes)

\* hash(str): salted by the interpreter run (hash randomisation); within one
\* run distinct strings get distinct values.
StrHash(s, seed) == <<seed, s>>

\* ------------------------------------------------------------- token paths
\* token_dir / f"token_{user_id}_{scope_hash}.pickle"
TokenPath(scopes, user_id, seed) ==
    [user_id |-> user_id, scope_hash |-> StrHash(Joined(scopes), seed)]

\* The characters of the file name between "token_" and ".pickle".  The
\* decimal digits (and sign) of the hash are written "#": none of them is "_".
FileStem(path) == path.user_id \o <<"_", "#">>

IsPrefix(p, q) == Len(p) <= Len(q) /\ SubSeq(q, 1, Len(p)) = p

\* token_dir.glob(f"token_{user_id}_*.pickle") applied to one file name
GlobMatches(user_id, path) == IsPrefix(user_id \o <<"_">>, FileStem(path))

\* ------------------------------------------------------------ credentials
\* What a record was granted for: the scope set the consent flow was run
\* with (Credentials.scopes) and the identity label of the call that ran it.
Grant(scopes, user_id) == [scopes |-> SeqToSet(scopes), user_id |-> user_id]
Grants == {Grant(sc, u) : sc \in ScopeLists, u \in Users}

\* google.oauth2.credentials.Credentials as the code reads it, with what it
\* was granted for.
Credential(expiry, refresh_token, granted) ==
    [expiry |-> expiry, refresh_token |-> refresh_token, granted |-> granted]

Credentials ==
    {Credential(e, r, g) :
        e \in 1..(MaxTime + TokenLifetime), r \in BOOLEAN, g \in Grants}

\* Optional[Credentials]: <<>> is None, <<c>> is c.
None == <<>>
Some(c) == <<c>>

\* credentials.expired at clock t
Expired(c, t) == t >= c.expiry
\* credentials.valid at clock t (the access token is never None)
Valid(c, t) == ~Expired(c, t)

\* pickle.dump / pickle.load: a file holds the pickle of one object, or bytes
\* that do not unpickle (an empty or truncated file).
Pickled(c) == <<"pickle", c.expiry, c.refresh_token, c.granted>>
Truncated == <<"truncated">>
Unpickles(bytes) == Len(bytes) = 4 /\ bytes[1] = "pickle"
Unpickled(bytes) == Credential(bytes[2], bytes[3], bytes[4])

FileContents == {Pickled(c) : c \in Credentials} \cup {Truncated}

\* ------------------------------------------------------- outcome alphabets
RefreshOutcomes == {"ok", "fail"}
\* the consent flow fails, or returns credentials with or without a refresh
\* token
FlowOutcomes == {"fail", "ok_refreshable", "ok_no_refresh_token"}
\* open() fails and leaves the file alone; pickle.dump fails after open()
\* truncated the file
SaveOutcomes == {"ok", "open_fail", "dump_fail"}
RevokeOutcomes == {"ok", "revoke_fail", "unlink_fail"}
\* What a call finds at self.client_secret_file.  The file belongs to the
\* user, who may install, replace or remove it between any two calls, so each
\* call draws what it finds.
ClientSecretStates == {"missing", "malformed", "valid"}

VARIABLES
    store,          \* token_dir: file name -> bytes, for the files that exist
    token_cache,    \* self.token_cache: path -> credentials object
    hash_seed,      \* the salt of str hashes in this interpreter run
    now,            \* the clock Credentials.expired reads
    last            \* log of the last call: method, arguments, what it did

\* Two callers inside get_credentials at once (a second thread on the same
\* GoogleAuth object).
VARIABLES
    pc,             \* caller -> the line of get_credentials it is at
    credentials,    \* self.credentials, the attribute the callers share
    returned        \* caller -> what its call returned

concVars == <<pc, credentials, returned>>

\* UploadWidget (gui/upload_widget.py) with its UploadWorker threads, the
\* settings it reads and the spreadsheet it writes to.
VARIABLES
    upload_worker,  \* self.upload_worker: 0 for None, else the number of the worker
    thread,         \* worker -> "none", "running", "emitted", "finished", "terminated"
    pending,        \* signals of the workers queued for the GUI thread
    upload_button,  \* self.upload_button.isEnabled()
    cancel_button,  \* self.cancel_button.isEnabled()
    sheets_check,   \* self.sheets_check.isChecked()
    youtube_service,    \* self.youtube_api and self.youtube_api.service
    sheets_service,     \* self.sheets_api and self.sheets_api.service
    spreadsheet_id,     \* settings["sheets"]["spreadsheet_id"] as a new AppSettings reads it
    create_if_not_exists,   \* settings["sheets"]["create_if_not_exists"]
    rows,           \* rows appended to spreadsheets so far
    uploads         \* upload -> what became of it (history)

uploadVars ==
    <<upload_worker, thread, pending, upload_button, cancel_button,
      sheets_check, youtube_service, sheets_service, spreadsheet_id,
      create_if_not_exists, rows, uploads>>

\* MainWindow (gui/main_window.py): the window owns the GoogleAuth object and
\* the two API wrappers; its handlers call GoogleAuth and then update these.
VARIABLES
    services,       \* self.services: the names of the services it holds
    youtube_api,    \* self.youtube_api.service is not None
    sheets_api,     \* self.sheets_api.service is not None
    login_button,   \* self.login_button.isEnabled()
    logout_button,  \* self.logout_button.isEnabled()
    auth_status_label,  \* the text of the label: "authorized" or "not_authorized"
    built_from,     \* the token path of the credentials the services were built from
    wpc             \* the line of silent_login the window is at, or "idle"

windowVars ==
    <<services, youtube_api, sheets_api, login_button, logout_button,
      auth_status_label, built_from, wpc>>

\* One upload request on its way from the widget's metadata to the body of
\* the videos().insert request (UploadWorker.upload_async, then
\* YouTubeAPI.upload_video).
VARIABLES
    metadata,       \* self.metadata of the worker: 'privacy' and 'category'
    upload_args,    \* what upload_async passes to upload_video, None before
    body            \* the request body upload_video builds, None before

mappingVars == <<metadata, upload_args, body>>

\* config/settings.py: the module-level DEFAULT_SETTINGS, the AppSettings
\* objects constructed so far and the configuration file.  A dict that is the
\* value of a section is an object on the heap, so that two dicts holding the
\* same object can be told from two dicts holding equal ones.
VARIABLES
    heap,           \* object id -> the section dict stored there (key -> value)
    DEFAULT_SETTINGS,   \* section -> object id
    app_settings,   \* instance -> its self.settings: section -> object id
    config_file,    \* CONFIG_FILE: None, or <<what json.dump wrote>>
    settings_call   \* the last call on an AppSettings object: method and instance

settingsVars ==
    <<heap, DEFAULT_SETTINGS, app_settings, config_file, settings_call>>

\* The variables of the components other than the sequential GoogleAuth and
\* the window that calls it.
otherVars == <<concVars, uploadVars, mappingVars, settingsVars>>

vars == <<store, token_cache, hash_seed, now, last, otherVars, windowVars>>


\* GoogleAuth._get_token_path
get_token_path(scopes, user_id) == TokenPath(scopes, user_id, hash_seed)

\* dict operations on token_cache and on the directory
Put(f, k, v) == [x \in DOMAIN f \cup {k} |-> IF x = k THEN v ELSE f[x]]
Del(f, k) == [x \in DOMAIN f \ {k} |-> f[x]]

\* _load_credentials that takes a file that does not unpickle for a record
\* with the longest lifetime.
load_credentials_trusting(cache, files, token_path) ==
    IF token_path \in DOMAIN cache
    THEN [credentials |-> Some(cache[token_path]), cache |-> cache]
    ELSE IF token_path \in DOMAIN files
    THEN LET c == IF Unpickles(files[token_path])
                  THEN Unpickled(files[token_path])
                  ELSE Credential(MaxTime + TokenLifetime, FALSE,
                                  Grant(token_path.scope_hash[2],
                                        token_path.user_id))
         IN  [credentials |-> Some(c), cache |-> Put(cache, token_path, c)]
    ELSE [credentials |-> None, cache |-> cache]

\* _load_credentials that is satisfied by any cached record of the identity.
load_credentials_by_identity(cache, files, token_path) ==
    IF \E q \in DOMAIN cache : q.user_id = token_path.user_id
    THEN [credentials |->
            Some(cache[CHOOSE q \in DOMAIN cache :
                            q.user_id = token_path.user_id]),
          cache |-> cache]
    ELSE [credentials |-> None, cache |-> cache]

\* GoogleAuth._load_credentials: the object returned (None or <<c>>) and the
\* cache afterwards.  A cached object is returned without reading the file; a
\* file that does not unpickle raises inside the try and yields None.
load_credentials(cache, files, token_path) ==
    IF token_path \in DOMAIN cache
    THEN [credentials |-> Some(cache[token_path]), cache |-> cache]
    ELSE IF token_path \in DOMAIN files /\ Unpickles(files[token_path])
    THEN [credentials |-> Some(Unpickled(files[token_path])),
          cache |-> Put(cache, token_path, Unpickled(files[token_path]))]
    ELSE [credentials |-> None, cache |-> cache]

\* _save_credentials that reports success and stores nothing.
save_credentials_lost(cache, files, c, token_path, out) ==
    [ok |-> out = "ok", files |-> files, cache |-> cache]

\* _save_credentials that fills the cache and writes no file.
save_credentials_cache_only(cache, files, c, token_path, out) ==
    [ok |-> out = "ok", files |-> files, cache |-> Put(cache, token_path, c)]

\* _save_credentials that writes the whole pickle and then reports a failure.
save_credentials_failing_late(cache, files, c, token_path, out) ==
    [ok |-> out = "ok", files |-> Put(files, token_path, Pickled(c)),
     cache |-> IF out = "ok" THEN Put(cache, token_path, c) ELSE cache]

\* GoogleAuth._save_credentials of object c under outcome out of the file
\* system: the return value, the directory and the cache afterwards.  The
\* cache is assigned only after pickle.dump returned.
save_credentials(cache, files, c, token_path, out) ==
    CASE out = "ok" ->
            [ok |-> TRUE, files |-> Put(files, token_path, Pickled(c)),
             cache |-> Put(cache, token_path, c)]
      [] out = "open_fail" ->
            [ok |-> FALSE, files |-> files, cache |-> cache]
      [] out = "dump_fail" ->
            [ok |-> FALSE, files |-> Put(files, token_path, Truncated),
             cache |-> cache]

\* A refresh that leaves the expiry as it was.
RefreshedStale(c) == c

\* Credentials.refresh on success: a new access token and expiry, in place;
\* the refresh token is kept.
Refreshed(c) == Credential(now + TokenLifetime, c.refresh_token, c.granted)

\* The credentials InstalledAppFlow.run_local_server returns for a flow made
\* from (client_secret_file, scopes) by a call for user_id.
FlowCredential(flow_out, scopes, user_id) ==
    Credential(now + TokenLifetime, flow_out = "ok_refreshable",
               Grant(scopes, user_id))

\* The log of the call that has just returned.  path: the token path of
\* get_credentials and check_saved_credentials; prev: what the call before it
\* was, when the claims relate the two (PrevGet, PrevCheck); found: what _load_credentials
\* returned; refresh, flow, save: "none" when the step was not taken, its
\* outcome otherwise; client: what the call found at client_secret_file, "none"
\* when it did not look; ret: the Optional[Credentials] get_credentials returned;
\* ok: the bool check_saved_credentials and revoke_token returned (for
\* get_credentials: ret is not None); entries: the files revoke_token found
\* and what happened at each.
Call(op, user_id, path, prev, found, refresh, client, flow, save, ret, ok, entries) ==
    [op |-> op, user_id |-> user_id, path |-> path, prev |-> prev,
     found |-> found, refresh |-> refresh, client |-> client, flow |-> flow,
     save |-> save, ret |-> ret, ok |-> ok, entries |-> entries]

EmptyMap == [x \in {} |-> 0]
NoCall ==
    [op |-> "none", user_id |-> <<>>, path |-> <<>>, prev |-> "none",
     found |-> None,
     refresh |-> "none", client |-> "none", flow |-> "none", save |-> "none",
     ret |-> None,
     ok |-> FALSE, entries |-> EmptyMap]

\* What the call before a get_credentials for token_path was: "none" unless
\* it was a get_credentials for the same path, in the same run and at the same
\* clock, or a check_saved_credentials for the same path that returned True
\* ("checked_true": MainWindow.silent_login calls get_combined_service right
\* after it); for a get_credentials, what its consent flow did, or, with no
\* flow, whether it returned credentials.
PrevGet(token_path) ==
    IF last.op = "check_saved_credentials" /\ last.path = <<token_path>>
       /\ last.ok
    THEN "checked_true"
    ELSE IF last.op # "get_credentials" \/ last.path # <<token_path>> THEN "none"
    ELSE IF last.flow = "fail" THEN "flow_failed"
    ELSE IF last.flow = "ok" THEN
        (IF last.save = "ok" THEN "flow_saved" ELSE "flow_unsaved")
    ELSE IF last.ret # None THEN "returned"
    ELSE "returned_none"

\* What the call before a check_saved_credentials for user_id was: "revoked"
\* when it was revoke_token for the same user_id.
PrevCheck(user_id) ==
    IF last.op = "revoke_token" /\ last.user_id = user_id THEN "revoked"
    ELSE "none"

\* ----------------------------------------------------------- get_credentials
\* line 163: not self.credentials or not self.credentials.valid
NotUsable(found) == found = None \/ ~Valid(found[1], now)

\* line 164: self.credentials and self.credentials.expired and
\* self.credentials.refresh_token
CanRefresh(found) ==
    found # None /\ Expired(found[1], now) /\ found[1].refresh_token

\* Line 176 never true: nothing found, or a failed refresh, is handed to the
\* caller.
NeedsFlowNever(found, refresh) == FALSE

\* Line 176 without line 173: a failed refresh leaves self.credentials set.
NeedsFlowLoadedOnly(found, refresh) == found = None

\* line 176: not self.credentials, where self.credentials is what the refresh
\* block left: None after a failed refresh, otherwise the loaded object (any
\* Credentials object is truthy).
NeedsFlow(found, refresh) == found = None \/ refresh = "fail"

\* lines 178-183: the client secret file must exist, and
\* from_client_secrets_file must parse it, before run_local_server is called.
FlowCanStart(client) == client = "valid"

\* What the file system can do to a write of token_path: the directory holds
\* at most MaxFiles files, and the write of one more fails at open().
SaveChoices(files, token_path) ==
    IF token_path \in DOMAIN files \/ Cardinality(DOMAIN files) < MaxFiles
    THEN SaveOutcomes ELSE {"open_fail"}

\* A call returns: the state it leaves and its log.
Return(cache, files, call) ==
    /\ token_cache' = cache
    /\ store' = files
    /\ last' = call
    /\ UNCHANGED <<hash_seed, now, otherVars>>

\* lines 176-198: the consent flow, entered with the cache as
\* _load_credentials left it.
InteractiveFlow(op, scopes, user_id, token_path, prev, cache, found, refresh) ==
    LET log(cl, flow, save, ret) ==
            Call(op, user_id, <<token_path>>, prev, found, refresh,
                 cl, flow, save, ret, ret # None, EmptyMap)
    IN
    \E client \in ClientSecretStates :
        IF ~FlowCanStart(client) THEN
            \* lines 178-180, or from_client_secrets_file raises: return None
            Return(cache, store,
                   log(client, "none", "none", None))
        ELSE
            \E flow_out \in FlowOutcomes :
                IF flow_out = "fail" THEN
                    \* run_local_server raises: lines 196-198
                    Return(cache, store,
                           log(client, "fail", "none", None))
                ELSE
                    \* lines 187-195: new credentials, save, line 200
                    \E save_out \in SaveChoices(store, token_path) :
                        LET c == FlowCredential(flow_out, scopes, user_id)
                            sv == save_credentials(cache, store, c,
                                                   token_path, save_out)
                        IN  Return(sv.cache, sv.files,
                                   log(client, "ok", save_out, Some(c)))

\* The log is a record of the past, not program state: no call reads it.  It
\* is kept across a call only where the claims relate two consecutive calls
\* (PrevGet, PrevCheck); before any other call it is dropped (Forget), which
\* changes nothing the program can see.
LogAllows(op, user_id, path) ==
    \/ last = NoCall
    \/ op = "get_credentials" /\ PrevGet(path) # "none"
    \/ op = "check_saved_credentials" /\ PrevCheck(user_id) # "none"

\* GoogleAuth.get_credentials, the whole call.
GetCredentials(scopes, user_id) ==
    LogAllows("get_credentials", user_id, get_token_path(scopes, user_id)) /\
    LET token_path == get_token_path(scopes, user_id)
        ld == load_credentials(token_cache, store, token_path)
        found == ld.credentials
        prev == PrevGet(token_path)
        log(refresh, save, ret) ==
            Call("get_credentials", user_id, <<token_path>>, prev, found,
                 refresh, "none", "none", save, ret, ret # None, EmptyMap)
    IN
    IF ~NotUsable(found) THEN
        \* fast path: line 200
        Return(ld.cache, store,
               log("none", "none", found))
    ELSE IF CanRefresh(found) THEN
        \/ \* lines 166-170: refreshed in place, saved, line 200
           \E save_out \in SaveChoices(store, token_path) :
                LET c == Refreshed(found[1])
                    sv == save_credentials(Put(ld.cache, token_path, c),
                                           store, c, token_path, save_out)
                IN  Return(sv.cache, sv.files,
                           log("ok", save_out, Some(c)))
        \/ \* refresh raises: lines 171-173, then line 176
           IF NeedsFlow(found, "fail") THEN
                InteractiveFlow("get_credentials", scopes, user_id, token_path, prev,
                                ld.cache, found, "fail")
           ELSE Return(ld.cache, store, log("fail", "none", found))
    ELSE IF NeedsFlow(found, "none") THEN
        InteractiveFlow("get_credentials", scopes, user_id, token_path, prev,
                        ld.cache, found, "none")
    ELSE
        \* expired and no refresh token: neither block runs, line 200
        Return(ld.cache, store,
               log("none", "none", found))

\* --------------------------------------------------- check_saved_credentials
\* check_saved_credentials written as "get_credentials(...) is not None".
CheckSavedByGet(user_id, combined_scopes) ==
    LogAllows("check_saved_credentials", user_id,
              get_token_path(combined_scopes, user_id)) /\
    LET token_path == get_token_path(combined_scopes, user_id)
        ld == load_credentials(token_cache, store, token_path)
        found == ld.credentials
    IN
    IF ~NotUsable(found) THEN
        Return(ld.cache, store,
               Call("check_saved_credentials", user_id, <<token_path>>,
                    PrevCheck(user_id), found, "none", "none", "none", "none",
                    None, TRUE, EmptyMap))
    ELSE
        InteractiveFlow("check_saved_credentials", combined_scopes, user_id,
                        token_path, PrevCheck(user_id), ld.cache, found, "none")

\* check_saved_credentials that returns True whenever the token file exists.
CheckSavedFileExists(user_id, combined_scopes) ==
    LogAllows("check_saved_credentials", user_id,
              get_token_path(combined_scopes, user_id)) /\
    LET token_path == get_token_path(combined_scopes, user_id)
    IN  Return(token_cache, store,
               Call("check_saved_credentials", user_id, <<token_path>>,
                    PrevCheck(user_id), None, "none", "none", "none", "none",
                    None, token_path \in DOMAIN store, EmptyMap))

\* GoogleAuth.check_saved_credentials, the whole call.  combined_scopes is
\* list(set(YOUTUBE_SCOPES + SHEETS_SCOPES)) in the order the set gave.
CheckSaved(user_id, combined_scopes) ==
    LogAllows("check_saved_credentials", user_id,
              get_token_path(combined_scopes, user_id)) /\
    LET token_path == get_token_path(combined_scopes, user_id)
        ld == load_credentials(token_cache, store, token_path)
        found == ld.credentials
        log(fnd, refresh, save, ok) ==
            Call("check_saved_credentials", user_id, <<token_path>>,
                 PrevCheck(user_id), fnd, refresh, "none", "none", save, None,
                 ok, EmptyMap)
    IN
    IF token_path \notin DOMAIN store THEN
        \* lines 218-220: the cache is not consulted
        Return(token_cache, store,
               log(None, "none", "none", FALSE))
    ELSE IF found = None THEN
        \* lines 224-225
        Return(ld.cache, store,
               log(found, "none", "none", FALSE))
    ELSE IF Valid(found[1], now) THEN
        \* lines 228-230
        Return(ld.cache, store,
               log(found, "none", "none", TRUE))
    ELSE IF Expired(found[1], now) /\ found[1].refresh_token THEN
        \/ \* lines 234-239: refreshed in place, saved, True whatever the
           \* save did
           \E save_out \in SaveChoices(store, token_path) :
                LET c == Refreshed(found[1])
                    sv == save_credentials(Put(ld.cache, token_path, c),
                                           store, c, token_path, save_out)
                IN  Return(sv.cache, sv.files,
                           log(found, "ok", save_out, TRUE))
        \/ \* refresh raises: lines 240-242
           Return(ld.cache, store,
                  log(found, "fail", "none", FALSE))
    ELSE
        \* lines 244-245
        Return(ld.cache, store,
               log(found, "none", "none", FALSE))

CheckSavedCredentials(user_id) ==
    \E combined_scopes \in CallCombinedLists :
        CheckSaved(user_id, combined_scopes)

\* --------------------------------------------------------------- revoke_token
\* line 335: the files of the directory the glob matches
user_tokens(user_id) == {p \in DOMAIN store : GlobMatches(user_id, p)}

\* line 348: credentials.revoke is called for this file
RevokesRemotely(found) == found # None /\ found[1].refresh_token

\* What can happen at one file: the remote revocation raises (only when it is
\* called), unlink raises, or neither.
EntryOutcomes(cache, files, token_path) ==
    {o \in RevokeOutcomes :
        o = "revoke_fail" =>
            RevokesRemotely(load_credentials(cache, files, token_path).credentials)}

\* The loop body of revoke_token without lines 358-359: the file is deleted
\* and the cache entry stays.
RevokeEntryKeepingCache(cache, files, token_path, out) ==
    LET ld == load_credentials(cache, files, token_path) IN
    [kept |-> out # "ok",
     cached |-> IF token_path \in DOMAIN ld.cache
                THEN Some(ld.cache[token_path]) ELSE None]

\* lines 343-361 for one file: is the file still there, and the cache entry
\* afterwards (<<>> for none).  An exception skips the rest of the body.
RevokeEntry(cache, files, token_path, out) ==
    LET ld == load_credentials(cache, files, token_path) IN
    IF out = "ok"
    THEN [kept |-> FALSE, cached |-> None]
    ELSE [kept |-> TRUE,
          cached |-> IF token_path \in DOMAIN ld.cache
                     THEN Some(ld.cache[token_path]) ELSE None]

\* revoke_token with the try around the loop instead of inside it: the first
\* exception ends the loop, here before any file was processed.
revoke_token_abort(user_id, outs) ==
    LET tokens == user_tokens(user_id)
        failed == \E p \in tokens : outs[p] # "ok"
        e(p) == RevokeEntry(token_cache, store, p,
                            IF failed THEN "unlink_fail" ELSE outs[p])
        files == [p \in {q \in DOMAIN store : q \notin tokens \/ e(q).kept}
                    |-> store[p]]
        keys == {q \in DOMAIN token_cache \ tokens : TRUE}
                    \cup {q \in tokens : e(q).cached # None}
        cache == [p \in keys |-> IF p \in tokens THEN e(p).cached[1]
                                 ELSE token_cache[p]]
    IN  [cache |-> cache, files |-> files,
         call |-> Call("revoke_token", user_id, <<>>, "none", None, "none",
                       "none", "none", "none", None, tokens # {} /\ ~failed,
                       outs)]

\* The state revoke_token leaves and its log; outs gives the outcome at each
\* file.  Each pass of the loop reads and writes only its own file and its
\* own cache entry, so the order the glob gives does not matter.
revoke_token(user_id, outs) ==
    LET tokens == user_tokens(user_id)
        e(p) == RevokeEntry(token_cache, store, p, outs[p])
        files == [p \in {q \in DOMAIN store : q \notin tokens \/ e(q).kept}
                    |-> store[p]]
        keys == {q \in DOMAIN token_cache \ tokens : TRUE}
                    \cup {q \in tokens : e(q).cached # None}
        cache == [p \in keys |-> IF p \in tokens THEN e(p).cached[1]
                                 ELSE token_cache[p]]
        success == \A p \in tokens : outs[p] = "ok"
    IN  [cache |-> cache, files |-> files,
         call |-> Call("revoke_token", user_id, <<>>, "none", None, "none",
                       "none", "none", "none", None, tokens # {} /\ success,
                       outs)]

RevokeToken(user_id) ==
    \E outs \in [user_tokens(user_id) -> RevokeOutcomes] :
        /\ last = NoCall
        /\ \A p \in user_tokens(user_id) :
                outs[p] \in EntryOutcomes(token_cache, store, p)
        /\ LET r == revoke_token(user_id, outs)
           IN  Return(r.cache, r.files, r.call)


\* ------------------------------------------------------------- environment
\* Time passes.  The log describes the call that has just returned, at the
\* clock of the call: it is dropped before the clock moves.
Tick ==
    /\ last = NoCall
    /\ now < MaxTime
    /\ now' = now + 1
    /\ UNCHANGED <<store, token_cache, hash_seed, last, otherVars, windowVars>>

\* The log of the last call is dropped.
Forget ==
    /\ last # NoCall
    /\ last' = NoCall
    /\ UNCHANGED <<store, token_cache, hash_seed, now, otherVars, windowVars>>

\* The application exits and is started again: GoogleAuth.__init__ (lines
\* 47-50) with the token directory as the earlier run left it, and a hash salt
\* of the new interpreter.
Restart ==
    /\ last = NoCall
    /\ token_cache' = EmptyMap
    /\ hash_seed' \in 0..MaxSeed
    /\ UNCHANGED <<store, now, last, otherVars, windowVars>>

\* ------------------------------------------------------------ specification
\* DEFAULT_SETTINGS (settings.py lines 55-71), its sections "sheets" and
\* "youtube" with one key each: the original defaults.
OriginalDefaults ==
    [section \in {"sheets", "youtube"} |->
        IF section = "sheets"
        THEN [key \in {"spreadsheet_id"} |-> ""]
        ELSE [key \in {"default_privacy"} |-> "private"]]

\* The dict objects of the two sections, and DEFAULT_SETTINGS referring to
\* them.
DefaultSections == [section \in {"sheets", "youtube"} |->
                        IF section = "sheets" THEN 1 ELSE 2]
OriginalHeap == [o \in {1, 2} |->
                    IF o = 1 THEN OriginalDefaults["sheets"]
                    ELSE OriginalDefaults["youtube"]]

\* The number of uploads started is at most MaxUploads.
MaxUploads == 2

\* An upload that has not been started.
NotStarted ==
    [state |-> "none", recording |-> FALSE, sheet |-> "none", added |-> 0,
     signalled |-> FALSE]

\* UploadWidget.__init__: no worker, nothing uploaded.  A video file is
\* selected and a title typed, so the upload button is enabled.
NoUploads ==
    /\ upload_worker = 0
    /\ thread = [i \in 1..MaxUploads |-> "none"]
    /\ pending = <<>>
    /\ upload_button = TRUE
    /\ cancel_button = FALSE
    /\ sheets_check = TRUE
    /\ youtube_service = TRUE
    /\ sheets_service = TRUE
    /\ spreadsheet_id = ""
    /\ create_if_not_exists = TRUE
    /\ rows = 0
    /\ uploads = [i \in 1..MaxUploads |-> NotStarted]

\* No upload request is on its way.
NoRequest ==
    /\ metadata = [privacy |-> None, category |-> None]
    /\ upload_args = None
    /\ body = None

\* settings.py as imported: DEFAULT_SETTINGS with its sections in two dict
\* objects, no AppSettings object, no configuration file.
NoSettings ==
    /\ heap = OriginalHeap
    /\ DEFAULT_SETTINGS = DefaultSections
    /\ app_settings = <<>>
    /\ config_file = None
    /\ settings_call = [op |-> "none", instance |-> 0]

\* MainWindow.__init__ up to line 135 (create_top_panel, lines 183-187): no
\* services, the login button enabled, the logout button disabled.
NoWindow ==
    /\ services = {}
    /\ youtube_api = FALSE
    /\ sheets_api = FALSE
    /\ login_button = TRUE
    /\ logout_button = FALSE
    /\ auth_status_label = "not_authorized"
    /\ built_from = None
    /\ wpc = "idle"

\* No caller is inside get_credentials.
Callers == {1, 2}
NoCallers ==
    /\ pc = [t \in Callers |-> "idle"]
    /\ credentials = None
    /\ returned = [t \in Callers |-> None]

Init ==
    /\ store = EmptyMap
    /\ token_cache = EmptyMap
    /\ hash_seed \in 0..MaxSeed
    /\ now = 0
    /\ last = NoCall
    /\ NoCallers
    /\ NoUploads
    /\ NoRequest
    /\ NoSettings
    /\ NoWindow

Next ==
    \/ \E scopes \in ScopeLists, user_id \in Users :
            GetCredentials(scopes, user_id) /\ UNCHANGED windowVars
    \/ \E user_id \in Users :
            CheckSavedCredentials(user_id) /\ UNCHANGED windowVars
    \/ \E user_id \in Users : RevokeToken(user_id) /\ UNCHANGED windowVars
    \/ Tick
    \/ Restart
    \/ Forget

Spec == Init /\ [][Next]_vars

TypeOK ==
    /\ DOMAIN token_cache \subseteq {TokenPath(sc, u, hash_seed) :
                                        sc \in ScopeLists, u \in Users}
                                  \cup DOMAIN store
    /\ \A p \in DOMAIN token_cache : token_cache[p] \in Credentials
    /\ \A p \in DOMAIN store : store[p] \in FileContents
    /\ now \in 0..MaxTime

\* ------------------------------------------- get_credentials, two callers
\* get_credentials takes no lock.  Two callers on one GoogleAuth object run
\* its lines interleaved and share self.credentials, token_cache and the token
\* directory.  A caller can be overtaken wherever it waits (between the tests,
\* inside the refresh exchange, inside run_local_server); the statements that
\* follow a blocking call inside its try block run with it.
\* Both callers ask for the same scopes and identity.
ConcPath == get_token_path(SHEETS_SCOPES, UserDefault)

ConcFrame ==
    UNCHANGED <<hash_seed, now, last, uploadVars, windowVars, mappingVars,
                settingsVars>>
Goto(t, label) == pc' = [pc EXCEPT ![t] = label]
\* the call of caller t returns value
Returns(t, value) ==
    /\ returned' = [returned EXCEPT ![t] = value]
    /\ Goto(t, "done")

\* lines 157-160: self.credentials = self._load_credentials(token_path)
Enter(t) ==
    /\ pc[t] = "idle"
    /\ LET ld == load_credentials(token_cache, store, ConcPath)
       IN  credentials' = ld.credentials /\ token_cache' = ld.cache
    /\ Goto(t, "l163")
    /\ UNCHANGED <<store, returned>> /\ ConcFrame

\* line 163
TestUsable(t) ==
    /\ pc[t] = "l163"
    /\ Goto(t, IF NotUsable(credentials) THEN "l164" ELSE "l200")
    /\ UNCHANGED <<store, token_cache, credentials, returned>> /\ ConcFrame

\* line 164
TestRefresh(t) ==
    /\ pc[t] = "l164"
    /\ Goto(t, IF CanRefresh(credentials) THEN "l166" ELSE "l176")
    /\ UNCHANGED <<store, token_cache, credentials, returned>> /\ ConcFrame

\* lines 165-173.  self.credentials may have been set to None by the other
\* caller since line 164: .refresh then raises, as a failed exchange does.  A
\* successful exchange changes the object in place, and with it the cache
\* entry when the cache holds that object.
RefreshExchange(t) ==
    /\ pc[t] = "l166"
    /\ \/ /\ credentials # None
          /\ \E save_out \in SaveChoices(store, ConcPath) :
                LET c == Refreshed(credentials[1])
                    aliased == /\ ConcPath \in DOMAIN token_cache
                               /\ token_cache[ConcPath] = credentials[1]
                    cache == IF aliased THEN Put(token_cache, ConcPath, c)
                             ELSE token_cache
                    sv == save_credentials(cache, store, c, ConcPath, save_out)
                IN  /\ credentials' = Some(c)
                    /\ token_cache' = sv.cache
                    /\ store' = sv.files
          /\ Goto(t, "l176")
       \/ /\ credentials' = None
          /\ Goto(t, "l176")
          /\ UNCHANGED <<store, token_cache>>
    /\ UNCHANGED returned /\ ConcFrame

\* line 176
TestNone(t) ==
    /\ pc[t] = "l176"
    /\ Goto(t, IF credentials = None THEN "l178" ELSE "l200")
    /\ UNCHANGED <<store, token_cache, credentials, returned>> /\ ConcFrame

\* lines 178-187: the client secret file is looked up and parsed, and
\* run_local_server is entered ("l187": the consent flow is in progress).
FlowStarts(t) ==
    /\ pc[t] = "l178"
    /\ \E client \in ClientSecretStates :
            IF FlowCanStart(client) THEN Goto(t, "l187") /\ UNCHANGED returned
            ELSE Returns(t, None)
    /\ UNCHANGED <<store, token_cache, credentials>> /\ ConcFrame

\* lines 187-198: run_local_server returns or raises; the credentials are
\* assigned and saved.
FlowEnds(t) ==
    /\ pc[t] = "l187"
    /\ \E flow_out \in FlowOutcomes :
            IF flow_out = "fail"
            THEN /\ Returns(t, None)
                 /\ UNCHANGED <<store, token_cache, credentials>>
            ELSE \E save_out \in SaveChoices(store, ConcPath) :
                    LET c == FlowCredential(flow_out, SHEETS_SCOPES, UserDefault)
                        sv == save_credentials(token_cache, store, c,
                                               ConcPath, save_out)
                    IN  /\ credentials' = Some(c)
                        /\ token_cache' = sv.cache
                        /\ store' = sv.files
                        /\ Goto(t, "l200")
                        /\ UNCHANGED returned
    /\ ConcFrame

\* line 200: return self.credentials
Leave(t) ==
    /\ pc[t] = "l200"
    /\ Returns(t, credentials)
    /\ UNCHANGED <<store, token_cache, credentials>> /\ ConcFrame

\* The two calls start with a token directory an earlier run left: no file
\* for the path, or a file with any contents.
ConcInit ==
    /\ store \in {EmptyMap} \cup
            {Put(EmptyMap, TokenPath(SHEETS_SCOPES, UserDefault, 0), b) :
                b \in {f \in FileContents :
                        Unpickles(f) => Unpickled(f).granted
                                            = Grant(SHEETS_SCOPES, UserDefault)}}
    /\ token_cache = EmptyMap
    /\ hash_seed = 0
    /\ now \in 0..MaxTime
    /\ last = NoCall
    /\ NoCallers
    /\ NoUploads
    /\ NoRequest
    /\ NoSettings
    /\ NoWindow

ConcNext ==
    \E t \in Callers :
        \/ Enter(t)
        \/ TestUsable(t)
        \/ TestRefresh(t)
        \/ RefreshExchange(t)
        \/ TestNone(t)
        \/ FlowStarts(t)
        \/ FlowEnds(t)
        \/ Leave(t)

SpecConcurrent == ConcInit /\ [][ConcNext]_vars

\* ------------------------------------------------------------ UploadWidget
\* One action per slot of UploadWidget and per step of an UploadWorker.  The
\* worker's signals are emitted in its own thread and queued for the GUI
\* thread, which runs the slots one at a time.
authVars == <<store, token_cache, hash_seed, now, last, concVars>>
UploadFrame == UNCHANGED <<authVars, windowVars, mappingVars, settingsVars>>

\* a signal of worker i in the queue
Signal(kind, i) == [kind |-> kind, worker |-> i]

\* create_spreadsheet returns an id or None; settings.save() writes the file
\* or fails (it returns False, which is ignored).  When it fails, the next
\* AppSettings object reads the old id from the file ("created_unsaved"), or,
\* with no id in the file, finds the new one in the section dict that
\* settings.set changed, which DEFAULT_SETTINGS shares with every
\* AppSettings object ("created_in_defaults").
CreateOutcomes ==
    {"created_saved", "created_unsaved", "created_in_defaults", "failed"}
\* add_video_record: get_spreadsheet_info fails, append_rows fails, something
\* raises, or the row is appended.
AddRecordOutcomes == {"ok", "info_fail", "append_fail", "raised"}

\* GoogleSheetsAPI.add_video_record: its return value under the outcome of
\* the API calls, and the rows it appended (append_rows is called once, after
\* get_spreadsheet_info succeeded).
add_video_record_twice(out) ==
    [success |-> out = "ok", appended |-> IF out = "ok" THEN 2 ELSE 0]
add_video_record(out) ==
    [success |-> out = "ok", appended |-> IF out = "ok" THEN 1 ELSE 0]

\* lines 580-583 and 598 of handle_upload_complete
ResetControls ==
    /\ upload_button' = TRUE
    /\ cancel_button' = FALSE
    /\ upload_worker' = 0

\* UploadWidget.start_upload (the upload button's slot): a new worker is
\* created, connected and started.
StartUpload ==
    /\ upload_button
    /\ youtube_service
    /\ \E i \in 1..MaxUploads :
        /\ thread[i] = "none"
        /\ \A j \in 1..(i - 1) : thread[j] # "none"
        /\ upload_worker' = i
        /\ thread' = [thread EXCEPT ![i] = "running"]
        /\ uploads' = [uploads EXCEPT ![i].state = "running"]
    /\ upload_button' = FALSE
    /\ cancel_button' = TRUE
    /\ UNCHANGED <<pending, sheets_check, youtube_service, sheets_service,
                   spreadsheet_id, create_if_not_exists, rows>>
    /\ UploadFrame

\* UploadWorker.run, lines 90-117: upload_async returns the response and
\* completed_signal is emitted, or it raises and error_signal is emitted.
WorkerEmits(i) ==
    /\ thread[i] = "running"
    /\ \E ok \in BOOLEAN :
        /\ pending' = Append(pending,
                             Signal(IF ok THEN "completed" ELSE "error", i))
        /\ uploads' = [uploads EXCEPT
                            ![i].state = IF ok THEN "completed" ELSE "failed"]
    /\ thread' = [thread EXCEPT ![i] = "emitted"]
    /\ UNCHANGED <<upload_worker, upload_button, cancel_button, sheets_check,
                   youtube_service, sheets_service, spreadsheet_id,
                   create_if_not_exists, rows>>
    /\ UploadFrame

\* UploadWorker.run returns: the thread has finished.
WorkerReturns(i) ==
    /\ thread[i] = "emitted"
    /\ thread' = [thread EXCEPT ![i] = "finished"]
    /\ UNCHANGED <<upload_worker, pending, upload_button, cancel_button,
                   sheets_check, youtube_service, sheets_service,
                   spreadsheet_id, create_if_not_exists, rows, uploads>>
    /\ UploadFrame

\* UploadWidget.cancel_upload (the cancel button's slot), lines 461-473.  The
\* thread is terminated if it is still running; an upload that had not
\* completed is cancelled.  A signal already queued stays queued.
CancelUpload ==
    /\ cancel_button
    /\ upload_worker # 0
    /\ thread[upload_worker] \in {"running", "emitted"}
    /\ thread' = [thread EXCEPT ![upload_worker] = "terminated"]
    /\ uploads' = [uploads EXCEPT ![upload_worker].state =
                        IF @ = "running" THEN "cancelled" ELSE @]
    /\ upload_worker' = 0
    /\ upload_button' = TRUE
    /\ cancel_button' = FALSE
    /\ UNCHANGED <<pending, sheets_check, youtube_service, sheets_service,
                   spreadsheet_id, create_if_not_exists, rows>>
    /\ UploadFrame

\* What handle_upload_complete leaves for upload i: whether recording was on,
\* what happened at the spreadsheet, the rows appended, the spreadsheet id in
\* the settings file, and whether the slot ran to its end (lines 580-598, where
\* upload_completed is emitted) or returned at line 556.
Handled(i, recording, sheet, added, id, to_end) ==
    /\ pending' = Tail(pending)
    /\ uploads' = [uploads EXCEPT ![i].recording = recording,
                                  ![i].sheet = sheet,
                                  ![i].added = @ + added,
                                  ![i].signalled = to_end]
    /\ rows' = rows + added
    /\ spreadsheet_id' = id
    /\ IF to_end THEN ResetControls
       ELSE UNCHANGED <<upload_button, cancel_button, upload_worker>>
    /\ UNCHANGED <<thread, sheets_check, youtube_service, sheets_service,
                   create_if_not_exists>>
    /\ UploadFrame

\* lines 547-570: the spreadsheet id is known; add_video_record is called once.
RecordVideo(i, id_now, id_saved) ==
    \E out \in AddRecordOutcomes :
        LET r == add_video_record(out)
        IN  Handled(i, TRUE, IF r.success THEN "appended" ELSE out,
                    r.appended, id_saved, TRUE)

\* UploadWidget.handle_upload_complete, lines 485-598, the slot of
\* completed_signal, for the signal at the head of the queue.
HandleUploadComplete ==
    /\ pending # <<>>
    /\ Head(pending).kind = "completed"
    /\ LET i == Head(pending).worker IN
       IF ~(sheets_check /\ sheets_service) THEN
            \* line 506 is false
            Handled(i, FALSE, "off", 0, spreadsheet_id, TRUE)
       ELSE IF spreadsheet_id = "" /\ create_if_not_exists THEN
            \* lines 517-545
            \E c \in CreateOutcomes :
                IF c = "failed"
                THEN Handled(i, TRUE, "no_id", 0, spreadsheet_id, FALSE)
                ELSE RecordVideo(i, "sheet",
                                 IF c = "created_unsaved" THEN spreadsheet_id
                                 ELSE "sheet")
       ELSE IF spreadsheet_id = "" THEN
            \* lines 548-556: warning and return
            Handled(i, TRUE, "no_id", 0, spreadsheet_id, FALSE)
       ELSE RecordVideo(i, spreadsheet_id, spreadsheet_id)

\* UploadWidget.handle_upload_error, lines 600-625, the slot of error_signal.
HandleUploadError ==
    /\ pending # <<>>
    /\ Head(pending).kind = "error"
    /\ pending' = Tail(pending)
    /\ ResetControls
    /\ UNCHANGED <<thread, sheets_check, youtube_service, sheets_service,
                   spreadsheet_id, create_if_not_exists, rows, uploads>>
    /\ UploadFrame

\* The user ticks or clears the "record in Google Sheets" box.
ToggleSheetsCheck ==
    /\ sheets_check' = ~sheets_check
    /\ UNCHANGED <<upload_worker, thread, pending, upload_button,
                   cancel_button, youtube_service, sheets_service,
                   spreadsheet_id, create_if_not_exists, rows, uploads>>
    /\ UploadFrame

\* UploadWidget.browse_file, lines 347-375, with a file chosen in the dialog.
\* self.youtube_api is the wrapper MainWindow passed, which is never None
\* after set_api_services, whether or not it holds a service.
BrowseFile ==
    /\ upload_button' = TRUE
    /\ UNCHANGED <<upload_worker, thread, pending, cancel_button,
                   sheets_check, youtube_service, sheets_service,
                   spreadsheet_id, create_if_not_exists, rows, uploads>>
    /\ UploadFrame

\* MainWindow.logout succeeded (main_window.py lines 393-394): set_service(None)
\* on the two wrappers, which are the objects the widget holds.
ServicesCleared ==
    /\ youtube_service
    /\ youtube_service' = FALSE
    /\ sheets_service' = FALSE
    /\ UNCHANGED <<upload_worker, thread, pending, upload_button,
                   cancel_button, sheets_check, spreadsheet_id,
                   create_if_not_exists, rows, uploads>>
    /\ UploadFrame

\* UploadWidget.set_api_services, lines 167-182, called by MainWindow after a
\* login succeeded (the login button is enabled only while the wrappers hold
\* no service): both wrappers hold a service; a file is selected.
SetApiServices ==
    /\ ~youtube_service
    /\ youtube_service' = TRUE
    /\ sheets_service' = TRUE
    /\ upload_button' = TRUE
    /\ UNCHANGED <<upload_worker, thread, pending, cancel_button,
                   sheets_check, spreadsheet_id, create_if_not_exists, rows,
                   uploads>>
    /\ UploadFrame

\* The widget after __init__ and set_api_services, with the settings file as
\* the user left it.
UploadInit ==
    /\ store = EmptyMap
    /\ token_cache = EmptyMap
    /\ hash_seed = 0
    /\ now = 0
    /\ last = NoCall
    /\ NoCallers
    /\ NoWindow
    /\ NoRequest
    /\ NoSettings
    /\ upload_worker = 0
    /\ thread = [i \in 1..MaxUploads |-> "none"]
    /\ pending = <<>>
    /\ upload_button = TRUE
    /\ cancel_button = FALSE
    /\ sheets_check = TRUE
    /\ youtube_service = TRUE
    /\ sheets_service \in BOOLEAN
    /\ spreadsheet_id \in {"", "sheet"}
    /\ create_if_not_exists \in BOOLEAN
    /\ rows = 0
    /\ uploads = [i \in 1..MaxUploads |-> NotStarted]

UploadNext ==
    \/ StartUpload
    \/ \E i \in 1..MaxUploads : WorkerEmits(i)
    \/ \E i \in 1..MaxUploads : WorkerReturns(i)
    \/ CancelUpload
    \/ HandleUploadComplete
    \/ HandleUploadError
    \/ ToggleSheetsCheck
    \/ BrowseFile
    \/ ServicesCleared
    \/ SetApiServices

SpecUpload == UploadInit /\ [][UploadNext]_vars

\* ------------------------------------------------------------- MainWindow
\* The window of the application (gui/main_window.py).  Its handlers run in
\* the GUI thread one at a time; each calls GoogleAuth for the identity
\* 'default' and then updates the wrappers and the buttons.  silent_login
\* makes two GoogleAuth calls, and wpc is where it stands between them.
\* A click is delivered only while its button is enabled.  A dialog answered
\* "No", and a login that finds no client secret file, change nothing.

\* googleapiclient build() of the two services (lines 314-319): both are
\* built, the second raises, or the first raises.
BuildOutcomes == {"both", "youtube_only", "neither"}

\* GoogleAuth.get_combined_service after get_credentials returned ret: the
\* names in the dict it returns.
get_combined_service(ret, built) ==
    IF ret = None THEN {}
    ELSE CASE built = "both" -> {"youtube", "sheets"}
           [] built = "youtube_only" -> {"youtube"}
           [] built = "neither" -> {}

\* The test of line 286 with "or" for "and".
HasAnyService(svc) == svc # {} /\ ("youtube" \in svc \/ "sheets" \in svc)

\* lines 286 and 334: self.services and 'youtube' in self.services and
\* 'sheets' in self.services
HasBothServices(svc) == svc # {} /\ "youtube" \in svc /\ "sheets" \in svc

\* lines 288-294 and 344-350: set_service on both wrappers with what the dict
\* holds, then the label and the buttons.
ShowAuthorized(svc) ==
    /\ youtube_api' = ("youtube" \in svc)
    /\ sheets_api' = ("sheets" \in svc)
    /\ auth_status_label' = "authorized"
    /\ login_button' = FALSE
    /\ logout_button' = TRUE
    /\ built_from' = last'.path

\* lines 392-399: set_service(None) on both wrappers, then the label and the
\* buttons.
ShowNotAuthorized ==
    /\ services' = {}
    /\ youtube_api' = FALSE
    /\ sheets_api' = FALSE
    /\ auth_status_label' = "not_authorized"
    /\ login_button' = TRUE
    /\ logout_button' = FALSE
    /\ built_from' = None

WindowShows ==
    <<youtube_api, sheets_api, auth_status_label, login_button,
      logout_button, built_from>>

\* self.services = self.auth.get_combined_service() and what the handler does
\* with it: lines 284-303 and 332-350.
UseCombinedService ==
    \E combined_scopes \in CallCombinedLists, built \in BuildOutcomes :
        /\ GetCredentials(combined_scopes, UserDefault)
        /\ services' = get_combined_service(last'.ret, built)
        /\ IF HasBothServices(services')
           THEN ShowAuthorized(services')
           ELSE UNCHANGED WindowShows

\* silent_login, lines 274-280: the client secret file is looked for, then
\* check_saved_credentials is called.
SilentLoginCheck ==
    /\ wpc = "line274"
    /\ \/ \* check_client_secret_file returns False: line 275
          /\ wpc' = "idle"
          /\ UNCHANGED <<store, token_cache, hash_seed, now, last, otherVars,
                         services, WindowShows>>
       \/ /\ CheckSavedCredentials(UserDefault)
          /\ wpc' = IF last'.ok THEN "line284" ELSE "idle"
          /\ UNCHANGED <<services, WindowShows>>

\* silent_login, lines 284-303
SilentLoginGet ==
    /\ wpc = "line284"
    /\ UseCombinedService
    /\ wpc' = "idle"

\* MainWindow.login, with the client secret file in place at line 315
Login ==
    /\ wpc = "idle"
    /\ login_button
    /\ UseCombinedService
    /\ UNCHANGED wpc

\* MainWindow.logout, the question answered "Yes"
Logout ==
    /\ wpc = "idle"
    /\ logout_button
    /\ RevokeToken(UserDefault)
    /\ IF last'.ok
       THEN ShowNotAuthorized
       ELSE UNCHANGED <<services, WindowShows>>
    /\ UNCHANGED wpc

\* The application is closed and started again: GoogleAuth.__init__ and
\* MainWindow.__init__, which ends with the call of silent_login (line 137).
Relaunch ==
    /\ wpc = "idle"
    /\ last = NoCall
    /\ token_cache' = EmptyMap
    /\ hash_seed' \in 0..MaxSeed
    /\ services' = {}
    /\ youtube_api' = FALSE
    /\ sheets_api' = FALSE
    /\ login_button' = TRUE
    /\ logout_button' = FALSE
    /\ auth_status_label' = "not_authorized"
    /\ built_from' = None
    /\ wpc' = "line274"
    /\ UNCHANGED <<store, now, last, otherVars>>

WindowInit ==
    /\ store = EmptyMap
    /\ token_cache = EmptyMap
    /\ hash_seed \in 0..MaxSeed
    /\ now = 0
    /\ last = NoCall
    /\ NoCallers
    /\ NoUploads
    /\ NoRequest
    /\ NoSettings
    /\ services = {}
    /\ youtube_api = FALSE
    /\ sheets_api = FALSE
    /\ login_button = TRUE
    /\ logout_button = FALSE
    /\ auth_status_label = "not_authorized"
    /\ built_from = None
    /\ wpc = "line274"

WindowNext ==
    \/ SilentLoginCheck
    \/ SilentLoginGet
    \/ Login
    \/ Logout
    \/ Relaunch
    \/ wpc = "idle" /\ Tick
    \/ wpc = "idle" /\ Forget

SpecWindow == WindowInit /\ [][WindowNext]_vars

\* ---------------------------------------------- privacy of an uploaded video
\* The combo box texts are Ukrainian; they are written here in Latin letters:
\* "Publichne" (public), "Nepublichne" (unlisted), "Pryvatne" (private).
\* Strings are compared as Python compares them, character by character.

\* Values metadata['privacy'] is explored with: the three options of the combo
\* box, the API's own words, near misses of the public option, the empty
\* string; None stands for a metadata dict without the key.
PrivacyInputs ==
    {Some(v) : v \in {"Publichne", "Nepublichne", "Pryvatne", "public",
                      "unlisted", "private", "publichne", "Publichne ", ""}}
        \cup {None}

\* Values metadata['category'] is explored with (category names, two of the
\* fifteen of YOUTUBE_CATEGORY_IDS).
CategoryInputs == {Some(v) : v \in {"Muzyka", "Osvita", "other"}} \cup {None}

\* settings.py lines 36-52, YOUTUBE_CATEGORY_IDS, for the names above
YOUTUBE_CATEGORY_IDS ==
    [name \in {"Muzyka", "Osvita"} |-> IF name = "Muzyka" THEN "10" ELSE "27"]

\* dict.get(key, default), key an Optional[str]
DictGet(dict, key, default) ==
    IF key # None /\ key[1] \in DOMAIN dict THEN dict[key[1]] ELSE default

\* upload_widget.py lines 59-63: privacy_mapping of upload_async
WorkerPrivacyMapping ==
    [label \in {"Publichne", "Nepublichne", "Pryvatne"} |->
        CASE label = "Publichne" -> "public"
          [] label = "Nepublichne" -> "unlisted"
          [] label = "Pryvatne" -> "private"]

\* youtube_api.py lines 86-93: privacy_mapping of upload_video
ApiPrivacyMapping ==
    [word \in {"Publichne", "Pryvatne", "Nepublichne", "public", "private",
               "unlisted"} |->
        CASE word \in {"Publichne", "public"} -> "public"
          [] word \in {"Pryvatne", "private"} -> "private"
          [] word \in {"Nepublichne", "unlisted"} -> "unlisted"]

\* upload_async handing the selected text to upload_video as it is.
worker_privacy_unmapped(md) == IF md.privacy = None THEN "" ELSE md.privacy[1]

\* upload_async line 64: privacy_mapping.get(self.metadata.get('privacy'),
\* "private")
worker_privacy_status(md) == DictGet(WorkerPrivacyMapping, md.privacy, "private")

\* upload_async lines 53-56
worker_category_id(md) == DictGet(YOUTUBE_CATEGORY_IDS, md.category, "22")

\* upload_video line 95: privacy_mapping.get(privacy_status, "private")
api_privacy(privacy_status) ==
    DictGet(ApiPrivacyMapping, Some(privacy_status), "private")

MappingFrame ==
    UNCHANGED <<store, token_cache, hash_seed, now, last, concVars,
                uploadVars, settingsVars, windowVars>>

\* UploadWorker.upload_async, lines 49-76: the arguments of upload_video
UploadAsync ==
    /\ upload_args = None
    /\ upload_args' = Some([privacy_status |-> worker_privacy_status(metadata),
                            category_id |-> worker_category_id(metadata)])
    /\ UNCHANGED <<metadata, body>>
    /\ MappingFrame

\* YouTubeAPI.upload_video, lines 86-109: the body of the insert request
UploadVideo ==
    /\ upload_args # None
    /\ body = None
    /\ body' = Some([privacyStatus |-> api_privacy(upload_args[1].privacy_status),
                     categoryId |-> upload_args[1].category_id])
    /\ UNCHANGED <<metadata, upload_args>>
    /\ MappingFrame

\* An upload request with any metadata.
MappingInit ==
    /\ store = EmptyMap
    /\ token_cache = EmptyMap
    /\ hash_seed = 0
    /\ now = 0
    /\ last = NoCall
    /\ NoCallers
    /\ NoUploads
    /\ NoWindow
    /\ NoSettings
    /\ metadata \in [privacy : PrivacyInputs, category : CategoryInputs]
    /\ upload_args = None
    /\ body = None

MappingNext == UploadAsync \/ UploadVideo

SpecMapping == MappingInit /\ [][MappingNext]_vars

\* ---------------------------------------------------------------- AppSettings
\* config/settings.py.  AppSettings.__init__ takes DEFAULT_SETTINGS.copy(),
\* a new dict whose values are the section dicts of DEFAULT_SETTINGS
\* themselves.

\* At most MaxInstances AppSettings objects are constructed.
MaxInstances == 2

SettingsFrame ==
    UNCHANGED <<store, token_cache, hash_seed, now, last, concVars,
                uploadVars, mappingVars, windowVars>>

\* The settings a dict of sections holds, section dicts read through heap h.
DeepIn(h, top) == [section \in DOMAIN top |-> h[top[section]]]

\* dict.update
Merge(d, e) ==
    [k \in DOMAIN d \cup DOMAIN e |-> IF k \in DOMAIN e THEN e[k] ELSE d[k]]

\* DEFAULT_SETTINGS.copy(), line 83: a new dict that holds the same section
\* objects.
shallow_copy(h, top) == [heap |-> h, settings |-> top]

\* AppSettings.load, lines 86-110, for self.settings = top: the heap
\* afterwards.  With no file, or one json.load cannot read, nothing changes.
load(h, top, file) ==
    IF file = None THEN h
    ELSE [o \in DOMAIN h |->
            IF \E sec \in DOMAIN file[1] \cap DOMAIN top : top[sec] = o
            THEN Merge(h[o], file[1][CHOOSE sec \in DOMAIN file[1] \cap DOMAIN top :
                                        top[sec] = o])
            ELSE h[o]]

\* AppSettings.set, lines 143-156
set(h, top, section, key, value) ==
    IF section \notin DOMAIN top
    THEN LET o == Cardinality(DOMAIN h) + 1
         IN  [heap |-> Put(h, o, Put(EmptyMap, key, value)),
              settings |-> Put(top, section, o)]
    ELSE [heap |-> [h EXCEPT ![top[section]] = Put(@, key, value)],
          settings |-> top]

\* The calls of set the objects are explored with: (section, key, value).
SetCalls ==
    {<<"sheets", "spreadsheet_id", "id1">>,
     <<"youtube", "default_privacy", "public">>,
     <<"extra", "spreadsheet_id", "id1">>}

\* AppSettings.update, lines 158-170, with the entries of settings_dict in the
\* order the dict gives them: (section, key, value) for 'section.key', and
\* (key, value) for a key without a dot, which is skipped.
RECURSIVE update(_, _, _)
update(h, top, entries) ==
    IF entries = <<>> THEN [heap |-> h, settings |-> top]
    ELSE LET e == Head(entries)
             r == IF Len(e) # 3 THEN [heap |-> h, settings |-> top]
                  ELSE set(h, top, e[1], e[2], e[3])
         IN  update(r.heap, r.settings, Tail(entries))

\* The dicts update is explored with.
UpdateCalls ==
    {<<c, d>> : c \in SetCalls, d \in {<<"spreadsheet_id", "id1">>}}
        \cup {<<c, d>> : c \in {<<"sheets", "spreadsheet_id", "id1">>},
                         d \in {<<"youtube", "default_privacy", "public">>}}

\* A call on instance i returns, leaving heap h and self.settings = top.
SettingsReturn(op, i, h, top) ==
    /\ heap' = h
    /\ app_settings' = [app_settings EXCEPT ![i] = top]
    /\ settings_call' = [op |-> op, instance |-> i]
    /\ UNCHANGED DEFAULT_SETTINGS
    /\ SettingsFrame

\* AppSettings(), lines 80-84: the copy, then load().
NewAppSettings ==
    /\ Len(app_settings) < MaxInstances
    /\ LET c == shallow_copy(heap, DEFAULT_SETTINGS)
           i == Len(app_settings) + 1
       IN  /\ heap' = load(c.heap, c.settings, config_file)
           /\ app_settings' = Append(app_settings, c.settings)
           /\ settings_call' = [op |-> "init", instance |-> i]
    /\ UNCHANGED <<DEFAULT_SETTINGS, config_file>>
    /\ SettingsFrame

SettingsSet(i) ==
    \E c \in SetCalls :
        LET r == set(heap, app_settings[i], c[1], c[2], c[3])
        IN  SettingsReturn("set", i, r.heap, r.settings)
                /\ UNCHANGED config_file

SettingsUpdate(i) ==
    \E d \in UpdateCalls :
        LET r == update(heap, app_settings[i], d)
        IN  SettingsReturn("update", i, r.heap, r.settings)
                /\ UNCHANGED config_file

SettingsLoad(i) ==
    /\ SettingsReturn("load", i, load(heap, app_settings[i], config_file),
                      app_settings[i])
    /\ UNCHANGED config_file

\* AppSettings.save, lines 112-127: json.dump of self.settings, or open() fails.
SettingsSave(i) ==
    /\ \E ok \in BOOLEAN :
        config_file' = IF ok THEN Some(DeepIn(heap, app_settings[i]))
                       ELSE config_file
    /\ SettingsReturn("save", i, heap, app_settings[i])

\* settings.py as imported, with no configuration file or one an earlier run
\* wrote.
SettingsInit ==
    /\ store = EmptyMap
    /\ token_cache = EmptyMap
    /\ hash_seed = 0
    /\ now = 0
    /\ last = NoCall
    /\ NoCallers
    /\ NoUploads
    /\ NoWindow
    /\ NoRequest
    /\ heap = OriginalHeap
    /\ DEFAULT_SETTINGS = DefaultSections
    /\ app_settings = <<>>
    /\ config_file \in
        {None,
         Some([section \in {"sheets"} |-> [key \in {"spreadsheet_id"} |-> "id0"]])}
    /\ settings_call = [op |-> "none", instance |-> 0]

SettingsNext ==
    \/ NewAppSettings
    \/ \E i \in DOMAIN app_settings : SettingsSet(i)
    \/ \E i \in DOMAIN app_settings : SettingsUpdate(i)
    \/ \E i \in DOMAIN app_settings : SettingsLoad(i)
    \/ \E i \in DOMAIN app_settings : SettingsSave(i)

SpecSettings == SettingsInit /\ [][SettingsNext]_vars

\* ===================================================================== claims
IsGet == last.op = "get_credentials"
IsCheck == last.op = "check_saved_credentials"
IsRevoke == last.op = "revoke_token"

\* run_local_server calls of a logged call
Flows(call) == IF call.flow = "none" THEN 0 ELSE 1
\* run_local_server calls of the call a PrevGet tag describes
PrevFlows(prev) ==
    IF prev \in {"flow_failed", "flow_saved", "flow_unsaved"} THEN 1 ELSE 0

\* The record is expired and has no refresh token.
Irrecoverable(c) == Expired(c, now) /\ ~c.refresh_token

\* Two file names of the same identity and scope set, whatever the hash salt.
SameGrant(p, q) ==
    p.user_id = q.user_id /\ p.scope_hash[2] = q.scope_hash[2]

\* The call made no consent flow, no refresh and no write, and returned what
\* it found.
PureHit ==
    /\ last.found # None
    /\ last.flow = "none" /\ last.refresh = "none" /\ last.save = "none"
    /\ last.ret = last.found

\* C1: get_credentials never returns credentials that are expired and have no
\* refresh token.
C1_NeverReturnsExpiredNonRefreshable ==
    (IsGet /\ last.ret # None) => ~Irrecoverable(last.ret[1])

\* C2: a call of get_credentials that finds, in the cache or the store, a
\* record that is expired and has no refresh token runs the consent flow
\* exactly once.
C2_IrrecoverableRecordTriggersOneFlow ==
    (IsGet /\ last.found # None /\ Irrecoverable(last.found[1]))
        => Flows(last) = 1

\* C3 as stated: two consecutive get_credentials calls for the same scopes and
\* identity, with no expiry or revocation between them, run at most one
\* consent flow in total.
C3_TwoCallsAtMostOneFlow ==
    (IsGet /\ last.prev # "none") => PrevFlows(last.prev) + Flows(last) <= 1

\* C3 as amended: two consecutive get_credentials calls for the same scopes and
\* identity run at most one consent flow in total, provided the first call's
\* flow, when it ran one, succeeded and its record was written to the store;
\* when the first call then returned credentials, the second is a cache hit.
C3_TwoCallsAtMostOneFlowWhenSaved ==
    (IsGet /\ last.prev \in {"flow_saved", "returned", "returned_none"})
        => /\ PrevFlows(last.prev) + Flows(last) <= 1
           /\ last.prev \in {"flow_saved", "returned"} => PureHit

\* C3, witness: a call that follows a call whose flow succeeded and was saved.
C3_Witness == IsGet /\ last.prev = "flow_saved" /\ PureHit

\* C4: when a valid record for the scopes and identity is in the cache or in
\* the store, get_credentials returns it with no consent flow, no refresh and
\* no write to the store.  A record is in the store for the scopes and
\* identity when some token file written for them holds it.
C4_ValidRecordIsReturnedUntouched ==
    (/\ IsGet
     /\ \/ last.found # None /\ Valid(last.found[1], now)
        \/ \E p \in DOMAIN store :
            /\ SameGrant(p, last.path[1]) /\ p # last.path[1]
            /\ Unpickles(store[p]) /\ Valid(Unpickled(store[p]), now))
        => /\ PureHit
           /\ Valid(last.ret[1], now)

\* C5 as stated: when get_credentials finds an expired record with a refresh
\* token and the refresh exchange succeeds, it runs no consent flow, returns a
\* record whose expiry is later than the one found, and the store and the
\* cache hold the returned record.
C5_RefreshReturnsLaterExpiryAndPersists ==
    (IsGet /\ last.refresh = "ok")
        => /\ last.flow = "none"
           /\ last.ret # None
           /\ last.ret[1].expiry > last.found[1].expiry
           /\ last.path[1] \in DOMAIN token_cache
           /\ token_cache[last.path[1]] = last.ret[1]
           /\ last.path[1] \in DOMAIN store
           /\ store[last.path[1]] = Pickled(last.ret[1])

\* C5 as amended: ... and the cache holds the returned record; the store holds
\* it too unless the write to the store failed.
C5_RefreshReturnsLaterExpiryAndCaches ==
    (IsGet /\ last.refresh = "ok")
        => /\ last.flow = "none"
           /\ last.ret # None
           /\ last.ret[1].expiry > last.found[1].expiry
           /\ last.path[1] \in DOMAIN token_cache
           /\ token_cache[last.path[1]] = last.ret[1]
           /\ last.save = "ok" =>
                /\ last.path[1] \in DOMAIN store
                /\ store[last.path[1]] = Pickled(last.ret[1])

\* C5, witness: a refresh that succeeded and was saved.
C5_Witness ==
    /\ IsGet /\ last.refresh = "ok" /\ last.save = "ok"
    /\ Expired(last.found[1], now) /\ last.found[1].refresh_token

\* The call returned credentials fresh from the consent flow.
ReturnedFresh ==
    /\ last.ret # None
    /\ last.ret # last.found
    /\ last.ret[1].expiry = now + TokenLifetime

\* The store and the cache hold the returned record under the call's path.
Persisted ==
    /\ last.path[1] \in DOMAIN token_cache
    /\ token_cache[last.path[1]] = last.ret[1]
    /\ last.path[1] \in DOMAIN store
    /\ store[last.path[1]] = Pickled(last.ret[1])

\* C6 as stated: when the refresh exchange of get_credentials fails, the same
\* call runs the consent flow, and when the flow succeeds it returns and
\* persists the flow's record.
C6_RefreshFailureFallsBackToFlow ==
    (IsGet /\ last.refresh = "fail")
        => /\ Flows(last) = 1
           /\ last.flow = "ok" => ReturnedFresh /\ Persisted

\* C6 as amended: when the refresh exchange fails, the same call goes on to
\* the consent flow and runs it if the client secret file is there and
\* well-formed; when the flow succeeds the call returns the flow's record, and
\* persists it unless the write to the store fails.
C6_RefreshFailureFallsBackToFlowIfConfigured ==
    (IsGet /\ last.refresh = "fail")
        => /\ last.client # "none"
           /\ last.client = "valid" => Flows(last) = 1
           /\ last.flow = "ok" =>
                /\ ReturnedFresh
                /\ last.save = "ok" => Persisted

\* C6, witness: a failed refresh followed by a flow that succeeded and was
\* saved.
C6_Witness ==
    IsGet /\ last.refresh = "fail" /\ last.flow = "ok" /\ last.save = "ok"

\* C7: check_saved_credentials called for an identity right after
\* revoke_token for that identity returns False.
C7_CheckAfterRevokeIsFalse ==
    (IsCheck /\ last.prev = "revoked") => ~last.ok

\* C8: in revoke_token, a file whose remote revocation failed is deleted all
\* the same and its cache entry evicted.
C8_RemoteFailureDoesNotBlockCleanup ==
    IsRevoke =>
        \A p \in DOMAIN last.entries :
            last.entries[p] = "revoke_fail"
                => p \notin DOMAIN store /\ p \notin DOMAIN token_cache

\* C9: revoke_token returns False when a step failed at any file, and a
\* failure at one file does not keep the other files from being processed:
\* every file at which no step failed is deleted and its cache entry evicted.
C9_FailureAtOneEntryDoesNotStopTheOthers ==
    IsRevoke =>
        /\ (\E p \in DOMAIN last.entries : last.entries[p] # "ok") => ~last.ok
        /\ \A p \in DOMAIN last.entries :
                last.entries[p] = "ok"
                    => p \notin DOMAIN store /\ p \notin DOMAIN token_cache

\* C9, witness: revoke_token over two files, a step failing at one of them.
C9_Witness ==
    /\ IsRevoke
    /\ \E p, q \in DOMAIN last.entries :
            last.entries[p] = "ok" /\ last.entries[q] # "ok"

\* C10: check_saved_credentials never runs the consent flow, and never looks
\* for the client secret file.
C10_CheckNeverStartsFlow ==
    IsCheck => last.flow = "none" /\ last.client = "none"

\* C10, witness: check_saved_credentials whose refresh failed, or which found
\* a record it cannot refresh.
C10_Witness ==
    /\ IsCheck /\ ~last.ok /\ last.found # None
    /\ last.refresh = "fail" \/ Irrecoverable(last.found[1])

\* C11: when check_saved_credentials returned True, the get_credentials call
\* for the same combined scopes and identity made right after it (as
\* MainWindow.silent_login does) returns valid credentials and runs no consent
\* flow.
C11_CheckTrueThenGetIsSilent ==
    (IsGet /\ last.prev = "checked_true")
        => /\ last.ret # None
           /\ Valid(last.ret[1], now)
           /\ last.flow = "none" /\ last.client = "none"

\* C11, witness: get_credentials right after a check_saved_credentials that
\* returned True.
C11_Witness == IsGet /\ last.prev = "checked_true" /\ last.ret # None

\* C12: two callers of get_credentials for the same scopes and identity are
\* never both inside the consent flow (run_local_server) at the same time.
C12_NeverTwoFlowsAtOnce ==
    ~(\A t \in Callers : pc[t] = "l187")

\* C13: the storage key of a scope set and identity does not depend on the
\* order of the scope list and is the same in every run: every token file in
\* the directory, whichever run wrote it, carries the name _get_token_path
\* gives its scopes and identity in the current run.
C13_KeyIsTheSameInEveryRun ==
    /\ \A sc \in CombinedScopeLists, u \in Users :
            get_token_path(sc, u) = get_token_path(YOUTUBE_SCOPES \o SHEETS_SCOPES, u)
    /\ \A p \in DOMAIN store :
            p = get_token_path(p.scope_hash[2], p.user_id)

\* What a logged call asked for: its identity and the scope set of its path.
Requested(call) ==
    [scopes |-> SeqToSet(call.path[1].scope_hash[2]), user_id |-> call.user_id]

\* C14 as stated: get_credentials finds and returns only records granted for
\* exactly the scope set and identity it was called with, and a call that
\* finds no such record runs the consent flow.
C14_ExactScopeKeying ==
    IsGet =>
        /\ last.found # None => last.found[1].granted = Requested(last)
        /\ last.ret # None => last.ret[1].granted = Requested(last)
        /\ last.found = None => Flows(last) = 1

\* C14 as amended: ... and a call that finds no such record goes on to the
\* consent flow, which is run when the client secret file is there and
\* well-formed.
C14_ExactScopeKeyingFlowIfConfigured ==
    IsGet =>
        /\ last.found # None => last.found[1].granted = Requested(last)
        /\ last.ret # None => last.ret[1].granted = Requested(last)
        /\ last.found = None =>
                /\ last.client # "none"
                /\ last.client = "valid" => Flows(last) = 1

\* C14, witness: a call for the sheets scopes finds nothing and runs the flow
\* while the cache holds a record of the same identity for the combined
\* scopes (a superset).
C14_Witness ==
    /\ IsGet /\ last.found = None /\ last.flow = "ok"
    /\ Requested(last).scopes = SeqToSet(SHEETS_SCOPES)
    /\ \E p \in DOMAIN token_cache :
            /\ p.user_id = last.user_id
            /\ token_cache[p].granted.scopes
                    = SeqToSet(YOUTUBE_SCOPES \o SHEETS_SCOPES)

\* C15: what get_credentials hands its caller when the client secret file is
\* missing differs from what it hands its caller when the consent flow did not
\* complete: of two calls in a row, the first with a failed flow and the
\* second finding no client secret file, the results differ.
C15_MissingFileIsDistinguishable ==
    [][(/\ IsGet /\ last.flow = "fail"
        /\ last'.op = "get_credentials" /\ last'.client = "missing")
            => last'.ret # last.ret]_vars

\* C16 as stated: a get_credentials call that finds no record for its scopes
\* and identity runs the consent flow exactly once, and when the flow succeeds
\* the store entry and the cache entry of the key hold the flow's record and
\* the call returns it.
C16_NoRecordRunsFlowOnceAndPersists ==
    (IsGet /\ last.found = None)
        => /\ Flows(last) = 1
           /\ last.flow = "ok" => ReturnedFresh /\ Persisted

\* C16 as amended: ... runs the consent flow exactly once if the client secret
\* file is there and well-formed, and none otherwise; when the flow succeeds
\* the call returns the flow's record, and the store entry and the cache entry
\* of the key hold it unless the write to the store failed.
C16_NoRecordRunsFlowOnceIfConfigured ==
    (IsGet /\ last.found = None)
        => /\ Flows(last) = (IF last.client = "valid" THEN 1 ELSE 0)
           /\ last.flow = "ok" =>
                /\ ReturnedFresh
                /\ last.ret[1].granted = Requested(last)
                /\ last.save = "ok" => Persisted

\* C16, witness: no record found, the flow succeeded and was saved.
C16_Witness ==
    /\ IsGet /\ last.found = None /\ last.refresh = "none"
    /\ last.flow = "ok" /\ last.save = "ok" /\ Persisted

\* The slot of upload i's completed_signal has run.
Recorded(i) == uploads[i].sheet # "none"

\* C17 as stated: every upload that completed, and whose completion was
\* handled with recording enabled and a sheets service set, has exactly one
\* row; an upload that failed or was cancelled has none.
C17_OneRowPerCompletedUpload ==
    \A i \in 1..MaxUploads :
        /\ (uploads[i].state = "completed" /\ Recorded(i)
                /\ uploads[i].recording) => uploads[i].added = 1
        /\ uploads[i].state \in {"failed", "cancelled"}
                => uploads[i].added = 0

\* C17 as amended: every upload has at most one row, appended by the slot of
\* its completion; a completed upload handled with recording enabled and a
\* sheets service set has exactly one row if a spreadsheet id was configured or
\* a spreadsheet could be created and add_video_record succeeded, and none
\* otherwise; an upload that failed or was cancelled has none.
C17_AtMostOneRowPerCompletedUpload ==
    /\ \A i \in 1..MaxUploads :
        /\ uploads[i].added =
                (IF uploads[i].state = "completed" /\ uploads[i].recording
                    /\ uploads[i].sheet = "appended" THEN 1 ELSE 0)
        /\ uploads[i].sheet = "appended" =>
                uploads[i].state = "completed" /\ uploads[i].recording
        /\ uploads[i].state \in {"failed", "cancelled"}
                => uploads[i].added = 0 /\ ~Recorded(i)
    /\ rows = Cardinality({i \in 1..MaxUploads : uploads[i].added = 1})

\* C17, witness: two uploads, one completed and recorded with its row, the
\* other cancelled.
C17_Witness ==
    \E i, j \in 1..MaxUploads :
        /\ uploads[i].state = "completed" /\ uploads[i].added = 1
        /\ uploads[j].state = "cancelled"
        /\ rows = 1

\* C18: when get_credentials finds a record that is expired with no refresh
\* token, or whose refresh exchange fails, the record is discarded: after the
\* call neither the cache entry nor the store entry of the key holds it, and
\* unless the consent flow succeeded the key has no entry at all.
C18_IrrecoverableRecordIsDiscarded ==
    (/\ IsGet /\ last.found # None
     /\ Irrecoverable(last.found[1]) \/ last.refresh = "fail")
        => /\ last.path[1] \in DOMAIN token_cache
                => token_cache[last.path[1]] # last.found[1]
           /\ last.path[1] \in DOMAIN store
                => store[last.path[1]] # Pickled(last.found[1])
           /\ last.flow # "ok"
                => /\ last.path[1] \notin DOMAIN token_cache
                   /\ last.path[1] \notin DOMAIN store

\* The token file p exists and does not unpickle.
CorruptAt(p) == p \in DOMAIN store /\ ~Unpickles(store[p])

\* The step is a call of get_credentials or check_saved_credentials for path p.
CallFor(p) ==
    /\ last'.op \in {"get_credentials", "check_saved_credentials"}
    /\ last'.path = <<p>>

\* C19 as stated: a call for a path whose token file is corrupt finds no
\* record; get_credentials then runs the consent flow and returns nothing but
\* the flow's record, and check_saved_credentials returns False.
C19_CorruptEntryIsNeverValid ==
    [][\A p \in DOMAIN store :
        (CallFor(p) /\ CorruptAt(p))
            => /\ last'.found = None
               /\ last'.op = "get_credentials" =>
                    /\ Flows(last') = 1
                    /\ last'.ret # None => last'.flow = "ok"
               /\ last'.op = "check_saved_credentials" => ~last'.ok]_vars

\* C19 as amended: a call for a path whose token file is corrupt, made while
\* the cache holds no record for the path, finds no record; get_credentials
\* then goes on to the consent flow, which is run when the client secret file
\* is there and well-formed, and returns nothing but the flow's record;
\* check_saved_credentials returns False.
C19_CorruptEntryIsNeverValidUncached ==
    [][\A p \in DOMAIN store :
        (CallFor(p) /\ CorruptAt(p) /\ p \notin DOMAIN token_cache)
            => /\ last'.found = None
               /\ last'.op = "get_credentials" =>
                    /\ last'.client # "none"
                    /\ last'.client = "valid" => Flows(last') = 1
                    /\ last'.ret # None => last'.flow = "ok"
               /\ last'.op = "check_saved_credentials" =>
                    ~last'.ok /\ token_cache' = token_cache]_vars

\* C19, witness: get_credentials found nothing at a path whose token file is
\* truncated and not cached, and went to the consent flow, which failed (the
\* file is as the call found it).
C19_Witness ==
    /\ IsGet /\ last.found = None /\ last.flow = "fail"
    /\ last.path[1] \in DOMAIN store /\ store[last.path[1]] = Truncated
    /\ last.path[1] \notin DOMAIN token_cache

\* C20: get_credentials returns None only when the client secret file is
\* missing or cannot be used, or when the consent flow did not complete; a
\* load that finds nothing (no file, a corrupt file), an expired record that
\* can be refreshed and a failed refresh do not by themselves end the call
\* with None.
C20_FailsOnlyForConfigOrFlow ==
    (IsGet /\ last.ret = None)
        => \/ last.client \in {"missing", "malformed"}
           \/ last.flow = "fail"

\* C20, witness: a call whose refresh failed returns None, because its consent
\* flow failed as well.
C20_Witness ==
    /\ IsGet /\ last.ret = None
    /\ last.found # None /\ last.refresh = "fail" /\ last.flow = "fail"

\* The client secret file may be absent during the call: the call found none,
\* or it never looked (lines 178-180 are the only read of the file, so what
\* such a call does is what it does with the file absent).
ClientFileMayBeAbsent(call) == call.client \in {"none", "missing"}

\* C21: a get_credentials call made while the client secret file is absent
\* returns None and runs no consent flow, whatever the cache and the store
\* hold.
C21_MissingClientFileFailsEveryCall ==
    (IsGet /\ ClientFileMayBeAbsent(last))
        => last.ret = None /\ last.flow = "none"

\* The write of _save_credentials failed in the call.
SaveFailed(call) == call.save \in {"open_fail", "dump_fail"}

\* C22: when _save_credentials fails in get_credentials, after a consent flow
\* or a refresh that succeeded, the call still returns the credentials it
\* obtained, and the token file of the key, if there is one, does not hold
\* them: it does not unpickle, or it unpickles to another record, which is
\* not valid.
C22_SaveFailureIsNotFatal ==
    (IsGet /\ SaveFailed(last))
        => /\ last.flow = "ok" \/ last.refresh = "ok"
           /\ last.ret # None
           /\ last.ret[1].expiry = now + TokenLifetime
           /\ Valid(last.ret[1], now)
           /\ (last.path[1] \in DOMAIN store /\ Unpickles(store[last.path[1]]))
                => /\ Unpickled(store[last.path[1]]) # last.ret[1]
                   /\ ~Valid(Unpickled(store[last.path[1]]), now)

\* C22, witness: a refresh succeeded, open() failed, and the token file still
\* holds the record as it was before the refresh.
C22_Witness ==
    /\ IsGet /\ last.refresh = "ok" /\ last.save = "open_fail"
    /\ last.path[1] \in DOMAIN store
    /\ Unpickles(store[last.path[1]])

\* C23: in every state any sequence of get_credentials,
\* check_saved_credentials and revoke_token calls reaches, whatever failed in
\* them, every key of token_cache has a file in the token directory; after
\* revoke_token in particular, no file it deleted is still cached.
C23_CachedKeysHaveFiles ==
    /\ DOMAIN token_cache \subseteq DOMAIN store
    /\ IsRevoke =>
            \A p \in DOMAIN last.entries :
                p \notin DOMAIN store => p \notin DOMAIN token_cache

\* C23, witness: revoke_token returned False; it deleted one file, and kept
\* another, whose record is cached, because unlink failed.
C23_Witness ==
    /\ IsRevoke /\ ~last.ok
    /\ \E p, q \in DOMAIN last.entries :
            /\ last.entries[p] = "ok" /\ p \notin DOMAIN store
            /\ last.entries[q] = "unlink_fail"
            /\ q \in DOMAIN store /\ q \in DOMAIN token_cache

\* C24: revoke_token for an identity leaves the token files and the cache
\* entries of every other identity as they were, and makes no remote
\* revocation for them (it does not process their files at all).
C24_RevokeTouchesOnlyItsIdentity ==
    [][last'.op = "revoke_token" =>
        \A p \in DOMAIN store \cup DOMAIN token_cache :
            p.user_id # last'.user_id =>
                /\ p \notin DOMAIN last'.entries
                /\ p \in DOMAIN store <=> p \in DOMAIN store'
                /\ p \in DOMAIN store => store'[p] = store[p]
                /\ p \in DOMAIN token_cache <=> p \in DOMAIN token_cache'
                /\ p \in DOMAIN token_cache =>
                        token_cache'[p] = token_cache[p]]_vars

\* The window is in the authorized state.
Authorized == youtube_api /\ sheets_api /\ logout_button

\* C25: after a confirmed logout, when revoke_token has deleted the token
\* file of the credentials the window's services were built from, the window
\* is not left in the authorized state, whatever revoke_token returned.
C25_LogoutNeverKeepsDeletedToken ==
    (/\ IsRevoke /\ built_from # None
     /\ built_from[1] \in DOMAIN last.entries
     /\ last.entries[built_from[1]] = "ok")
        => /\ ~Authorized
           /\ built_from[1] \notin DOMAIN store => services = {}

\* C26: after any sequence of silent_login, login and logout events, the
\* logout button is enabled exactly when the login button is disabled, and
\* exactly when both API wrappers hold a service.
C26_ButtonsFollowServices ==
    /\ logout_button <=> ~login_button
    /\ logout_button <=> (youtube_api /\ sheets_api)
    /\ youtube_api <=> sheets_api

\* C26, witness: a login got credentials, the second build() raised, and the
\* window stayed not authorized with one service in self.services.
C26_Witness ==
    /\ wpc = "idle" /\ IsGet /\ last.ret # None
    /\ services = {"youtube"}
    /\ login_button /\ ~logout_button /\ ~youtube_api /\ ~sheets_api

\* Upload i has finished: it completed, failed or was cancelled, and no signal
\* of its worker is waiting for its slot.
Finished(i) ==
    /\ uploads[i].state \in {"completed", "failed", "cancelled"}
    /\ \A k \in DOMAIN pending : pending[k].worker # i

\* Upload i has been started.
Started(i) == uploads[i].state # "none"

\* C27: once every upload that was started has finished, by completion, error
\* or cancellation, and whatever the spreadsheet step did, the widget is idle:
\* the upload button enabled, the cancel button disabled, upload_worker
\* cleared; and upload_completed was emitted for every upload whose completion
\* was handled.
C27_WidgetReturnsToIdle ==
    ((\E i \in 1..MaxUploads : Started(i))
        /\ \A i \in 1..MaxUploads : Started(i) => Finished(i))
        => /\ upload_button /\ ~cancel_button /\ upload_worker = 0
           /\ \A i \in 1..MaxUploads :
                (uploads[i].state = "completed" /\ thread[i] # "terminated")
                    => uploads[i].signalled

\* A worker thread is running (run has not returned and it was not terminated).
Running(i) == thread[i] \in {"running", "emitted"}

\* C28: at most one UploadWorker is running at any time, and the upload
\* button is disabled as long as a worker is uploading.
C28_AtMostOneWorkerRunning ==
    /\ Cardinality({i \in 1..MaxUploads : Running(i)}) <= 1
    /\ \A i \in 1..MaxUploads : thread[i] = "running" => ~upload_button

\* The privacyStatus a request for selected value v must carry.
ExpectedPrivacy(v) ==
    IF v = Some("Publichne") THEN "public"
    ELSE IF v = Some("Nepublichne") THEN "unlisted"
    ELSE "private"

\* C29: the body upload_video builds carries privacyStatus public only when
\* the privacy selected is exactly the public option; the unlisted option
\* gives unlisted, the private option private, and every other value, or none,
\* private.
C29_PublicOnlyWhenSelected ==
    body # None =>
        /\ body[1].privacyStatus = ExpectedPrivacy(metadata.privacy)
        /\ body[1].privacyStatus = "public"
                => metadata.privacy = Some("Publichne")

\* C29, witness: the API's own word "public" was selected, and the request is
\* private.
C29_Witness ==
    /\ body # None /\ metadata.privacy = Some("public")
    /\ body[1].privacyStatus = "private"

\* C30: a call of set, update or load (or the constructor, which calls load)
\* on one AppSettings object leaves DEFAULT_SETTINGS and the settings of
\* every other AppSettings object as they were, and an object constructed
\* with no configuration file holds the original defaults.
C30_SettingsAreInstanceLocal ==
    [][/\ DeepIn(heap', DEFAULT_SETTINGS') = DeepIn(heap, DEFAULT_SETTINGS)
       /\ \A i \in DOMAIN app_settings :
            i # settings_call'.instance
                => DeepIn(heap', app_settings'[i]) = DeepIn(heap, app_settings[i])
       /\ (Len(app_settings') > Len(app_settings) /\ config_file = None)
            => DeepIn(heap', app_settings'[Len(app_settings')])
                    = OriginalDefaults]_vars

====
